---- MODULE Spec2Model ----
(***************************************************************************)
(* Retrieval and relevance filtering of the university chatbot:            *)
(* EmbeddingsManager of embeddings_manager.py.  Strings are sequences of   *)
(* one-character strings, so that Python's substring test `kw in text` and *)
(* str.lower() are computed, not assumed.  Similarity scores are in        *)
(* hundredths (0.65 is 65).  The table grouping of pdf_loader.py is        *)
(* modelled on the lines of one page.                                      *)
(***************************************************************************)
EXTENDS Integers, Sequences, FiniteSets, TLC

(***************************************************************************)
(* Strings                                                                 *)
(***************************************************************************)
UpperCase ==
    <<"A","B","C","D","E","F","G","H","I","J","K","L","M",
      "N","O","P","Q","R","S","T","U","V","W","X","Y","Z">>

LowerCase ==
    <<"a","b","c","d","e","f","g","h","i","j","k","l","m",
      "n","o","p","q","r","s","t","u","v","w","x","y","z">>

\* a function over 1..n, as the list of its values
List(f) ==
    f \o <<>>

\* a function over a finite set, as the table of its values
Table(f) ==
    f @@ <<>>

\* f applied to the value of v
Apply(f(_), v) ==
    CHOOSE r \in {f(w) : w \in {v}} : TRUE

\* str.lower() on one character
LowerChar(c) ==
    IF \E i \in 1..Len(UpperCase) : UpperCase[i] = c
    THEN LowerCase[CHOOSE i \in 1..Len(UpperCase) : UpperCase[i] = c]
    ELSE c

\* str.lower()
Lower(s) ==
    List([i \in 1..Len(s) |-> LowerChar(s[i])])

\* Python's `sub in s` on strings: sub occurs as a contiguous substring
Contains(s, sub) ==
    \E i \in 1..(Len(s) - Len(sub) + 1) : SubSeq(s, i, i + Len(sub) - 1) = sub

\* the members of a list, as a set
Range(l) ==
    {l[i] : i \in 1..Len(l)}

\* Python's l[:n]
Take(l, n) ==
    SubSeq(l, 1, IF n < Len(l) THEN n ELSE Len(l))

\* sep.join(l) with sep = " "
RECURSIVE JoinSpace(_)
JoinSpace(l) ==
    IF Len(l) = 0 THEN <<>>
    ELSE IF Len(l) = 1 THEN l[1]
    ELSE l[1] \o <<" ">> \o JoinSpace(Tail(l))

\* list concatenation of a list of lists
RECURSIVE Flatten(_)
Flatten(ll) ==
    IF Len(ll) = 0 THEN <<>> ELSE ll[1] \o Flatten(Tail(ll))

(***************************************************************************)
(* The category table of __init__ (a dict: iteration is insertion order)   *)
(***************************************************************************)
Kw_academic ==
    << <<"c","o","u","r","s","e">>,
       <<"p","r","o","g","r","a","m">>,
       <<"d","e","g","r","e","e">>,
       <<"m","a","j","o","r">>,
       <<"m","i","n","o","r">>,
       <<"c","u","r","r","i","c","u","l","u","m">>,
       <<"s","y","l","l","a","b","u","s">>,
       <<"a","c","a","d","e","m","i","c">>,
       <<"s","t","u","d","y">> >>

Kw_administrative ==
    << <<"a","d","m","i","s","s","i","o","n">>,
       <<"e","n","r","o","l","l","m","e","n","t">>,
       <<"r","e","g","i","s","t","r","a","t","i","o","n">>,
       <<"a","p","p","l","i","c","a","t","i","o","n">>,
       <<"d","e","a","d","l","i","n","e">>,
       <<"p","r","o","c","e","d","u","r","e">>,
       <<"p","r","o","c","e","s","s">> >>

Kw_financial ==
    << <<"f","e","e">>,
       <<"t","u","i","t","i","o","n">>,
       <<"p","a","y","m","e","n","t">>,
       <<"c","o","s","t">>,
       <<"s","c","h","o","l","a","r","s","h","i","p">>,
       <<"f","i","n","a","n","c","i","a","l"," ","a","i","d">>,
       <<"b","u","d","g","e","t">>,
       <<"e","x","p","e","n","s","e">> >>

Kw_campus ==
    << <<"f","a","c","i","l","i","t","y">>,
       <<"b","u","i","l","d","i","n","g">>,
       <<"c","a","m","p","u","s">>,
       <<"l","i","b","r","a","r","y">>,
       <<"l","a","b">>,
       <<"c","l","a","s","s","r","o","o","m">>,
       <<"d","o","r","m","i","t","o","r","y">>,
       <<"h","o","u","s","i","n","g">> >>

Kw_student_life ==
    << <<"s","t","u","d","e","n","t">>,
       <<"l","i","f","e">>,
       <<"a","c","t","i","v","i","t","y">>,
       <<"c","l","u","b">>,
       <<"o","r","g","a","n","i","z","a","t","i","o","n">>,
       <<"e","v","e","n","t">>,
       <<"c","a","m","p","u","s"," ","l","i","f","e">> >>

Kw_services ==
    << <<"s","e","r","v","i","c","e">>,
       <<"s","u","p","p","o","r","t">>,
       <<"h","e","l","p">>,
       <<"a","s","s","i","s","t","a","n","c","e">>,
       <<"g","u","i","d","a","n","c","e">>,
       <<"c","o","u","n","s","e","l","i","n","g">>,
       <<"a","d","v","i","s","i","n","g">> >>

university_terms ==
    << <<"u","n","i","v","e","r","s","i","t","y">>,
       <<"c","o","l","l","e","g","e">>,
       <<"s","t","u","d","e","n","t">>,
       <<"p","r","o","f","e","s","s","o","r">>,
       <<"l","e","c","t","u","r","e","r">>,
       <<"c","a","m","p","u","s">>,
       <<"a","c","a","d","e","m","i","c">> >>

QWeather ==
    <<"H","o","w"," ","i","s"," ","t","h","e"," ","w","e","a","t","h","e","r"," ","t","o","d","a","y","?">>

QAdmission ==
    <<"a","d","m","i","s","s","i","o","n"," ","r","e","q","u","i","r","e","m","e","n","t","s">>

QProfessor ==
    <<"W","h","o"," ","i","s"," ","t","h","e"," ","p","r","o","f","e","s","s","o","r","?">>

QStudentFees ==
    <<"S","t","u","d","e","n","t"," ","f","e","e","s">>

TextAdmission ==
    <<"A","d","m","i","s","s","i","o","n"," ","d","e","a","d","l","i","n","e">>

TextMenu ==
    <<"C","a","f","e","t","e","r","i","a"," ","m","e","n","u">>

TextTuition ==
    <<"T","u","i","t","i","o","n"," ","f","e","e">>

Categories ==
    <<"academic", "administrative", "financial", "campus", "student_life", "services">>

university_keywords ==
    [academic |-> Kw_academic, administrative |-> Kw_administrative,
     financial |-> Kw_financial, campus |-> Kw_campus,
     student_life |-> Kw_student_life, services |-> Kw_services]

(***************************************************************************)
(* Python lists and sets                                                   *)
(***************************************************************************)
\* l without the later occurrences of a member (the members of set(l))
AppendNew(d, x) ==
    IF x \in Range(d) THEN d ELSE Append(d, x)

RECURSIVE Distinct(_)
Distinct(l) ==
    IF Len(l) = 0 THEN <<>>
    ELSE AppendNew(Distinct(SubSeq(l, 1, Len(l) - 1)), l[Len(l)])

Reverse(l) ==
    List([i \in 1..Len(l) |-> l[Len(l) + 1 - i]])

Rotate(l, n) ==
    List([i \in 1..Len(l) |-> l[((i - 1 + n) % Len(l)) + 1]])

\* list(set(l)): the members of l, each once, in the iteration order of a set
\* of strings.  That order follows the string hashes, which CPython salts per
\* process (PYTHONHASHSEED); salt stands for that of the running process.
\* Salt 1 gives the insertion order, the others rotate and reverse it.
PySetOrder(l, salt) ==
    Apply(LAMBDA d :
             Apply(LAMBDA r : IF salt % 2 = 0 THEN Reverse(r) ELSE r,
                   IF Len(d) = 0 THEN d ELSE Rotate(d, ((salt - 1) \div 2) * 4)),
          Distinct(l))

(***************************************************************************)
(* Domain classifier and query enhancer                                    *)
(***************************************************************************)
\* any(keyword in query_lower for keyword in keywords)
AnyKeywordIn(keywords, text_lower) ==
    \E i \in 1..Len(keywords) : Contains(text_lower, keywords[i])

\* an extraction that keeps only the keywords that occur in the query
found_occurring_only(query) ==
    Flatten(List([c \in 1..Len(Categories) |->
                SelectSeq(university_keywords[Categories[c]],
                          LAMBDA kw : Contains(Lower(query), kw))]))

\* an extraction that also yields the common university terms in the query
found_with_common_terms(query) ==
    Flatten(List([c \in 1..Len(Categories) |->
                IF AnyKeywordIn(university_keywords[Categories[c]], Lower(query))
                THEN university_keywords[Categories[c]]
                ELSE <<>>]))
       \o SelectSeq(university_terms, LAMBDA term : Contains(Lower(query), term))

\* found_keywords of _extract_university_keywords, before list(set(...)):
\* the whole list of every category one of whose keywords occurs in the query
found_keywords(query) ==
    Flatten(List([c \in 1..Len(Categories) |->
                IF AnyKeywordIn(university_keywords[Categories[c]], Lower(query))
                THEN university_keywords[Categories[c]]
                ELSE <<>>]))

extract_university_keywords(query, salt) ==
    Apply(LAMBDA found : PySetOrder(found, salt), found_keywords(query))

is_university_related(query) ==
    \/ \E c \in 1..Len(Categories) :
          AnyKeywordIn(university_keywords[Categories[c]], Lower(query))
    \/ AnyKeywordIn(university_terms, Lower(query))

\* category_keywords[:3] of the first category that lists the keyword
RelatedTerms(keyword) ==
    IF \E c \in 1..Len(Categories) : keyword \in Range(university_keywords[Categories[c]])
    THEN LET c == CHOOSE c \in 1..Len(Categories) :
                    /\ keyword \in Range(university_keywords[Categories[c]])
                    /\ \A b \in 1..(c - 1) :
                          keyword \notin Range(university_keywords[Categories[b]])
         IN Take(university_keywords[Categories[c]], 3)
    ELSE <<>>

\* enhanced_terms of _enhance_query
enhanced_terms(query, salt) ==
    Apply(LAMBDA keywords :
             Flatten(List([i \in 1..Len(keywords) |-> RelatedTerms(keywords[i])])),
          extract_university_keywords(query, salt))

\* enhanced_terms[:5], the terms _enhance_query appends; none for a query
\* that is not institution-related
appended_terms(query, salt) ==
    IF ~is_university_related(query) THEN <<>>
    ELSE Take(enhanced_terms(query, salt), 5)

enhance_query(query, salt) ==
    IF ~is_university_related(query) THEN query
    ELSE Apply(LAMBDA terms :
                  IF Len(terms) > 0
                  THEN query \o <<" ">> \o JoinSpace(Take(terms, 5))
                  ELSE query,
               enhanced_terms(query, salt))

(***************************************************************************)
(* Bounds of the model                                                     *)
(***************************************************************************)
\* the longest corpus create_embeddings is given
MaxChunks == 4

\* the largest k a caller asks for
MaxK == 3

\* the number of hash salts (orders of list(set(...))) a process may run with
NumSeeds == 2

\* the number of embedding models (model_name) a manager may be built with
NumModels == 2

\* search_similar_chunks calls in one run
MaxSearches == 2

\* create_embeddings calls in one run
MaxCreates == 1

\* the longest corpus two concurrent callers search
MaxConcChunks == 1

\* the longest corpus that replaces the one being searched
MaxSwapChunks == 2

\* the longest corpus searched in two processes
MaxRestartChunks == 2

\* the longest corpus persisted under a source prefix
MaxSourceChunks == 2

\* the longest list of source prefixes given to combine_embeddings
MaxSources == 2

\* the longest corpus behind a file that load_embeddings looks for
MaxLoadChunks == 1

Seeds == 1..NumSeeds

Models == 0..(NumModels - 1)

Queries == {QWeather, QAdmission, QProfessor, QStudentFees}

Texts == {TextAdmission, TextMenu, TextTuition}

Threads == {"t1", "t2"}

(***************************************************************************)
(* The embedding model and the FAISS index, which the manager only calls.  *)
(* A vector is the direction class of the encoded string; the inner        *)
(* product of two unit vectors is a fixed, symmetric function of the two   *)
(* classes, 1.0 for equal vectors, ranging over negative and positive      *)
(* cosines.                                                                *)
(***************************************************************************)
relevance_threshold == 65

dynamic_threshold == 45

broad_threshold == 40

Directions == 0..30

CosTable == <<70, 50, -20, 42, 30, 70, 50>>

\* the score FAISS reports beside the id -1 of a missing result
\* (the lowest float32, about -3.4e38)
NoResultScore == 0 - 100000

CharCode(c) ==
    IF \E i \in 1..Len(LowerCase) : LowerCase[i] = c
    THEN CHOOSE i \in 1..Len(LowerCase) : LowerCase[i] = c
    ELSE 0

RECURSIVE WeightedSum(_)
WeightedSum(s) ==
    IF Len(s) = 0 THEN 0
    ELSE WeightedSum(SubSeq(s, 1, Len(s) - 1)) + Len(s) * CharCode(LowerChar(s[Len(s)]))

\* self.model.encode([s], normalize_embeddings=True)
encode(s) ==
    WeightedSum(s) % Cardinality(Directions)

\* inner product of two unit vectors under embedding model m
InnerProduct(u, v, m) ==
    IF u = v THEN 100
    ELSE CosTable[((u * v + u + v + m) % Len(CosTable)) + 1]

\* faiss.IndexFlatIP.search(query_vector, k) over the vectors ix: the k best
\* (id, score) pairs by descending inner product, ids from 0, equal scores by
\* ascending id; positions past the number of stored vectors hold id -1
IndexSearch(ix, qv, k, m) ==
    Apply(LAMBDA score :
             LET n == Len(score)
                 before(j, i) == score[j] > score[i] \/ (score[j] = score[i] /\ j < i)
                 rank(i) == 1 + Cardinality({j \in 1..n : before(j, i)})
                 at(r) == CHOOSE i \in 1..n : rank(i) = r
             IN List([r \in 1..k |->
                        IF r <= n THEN [id |-> at(r) - 1, score |-> score[at(r)]]
                        ELSE [id |-> 0 - 1, score |-> NoResultScore]]),
          List([i \in 1..Len(ix) |-> InnerProduct(qv, ix[i], m)]))

(***************************************************************************)
(* Chunks                                                                  *)
(***************************************************************************)
\* a chunk as pdf_loader builds it, before any search
NewChunk(text) ==
    [text |-> text, metadata |-> [type |-> "pdf", source |-> "handbook.pdf"]]

\* an annotation that leaves a chunk already annotated as it is
KeepFirstAnnotation(chunk, score, reason) ==
    IF "relevance_score" \in DOMAIN chunk.metadata
    THEN chunk
    ELSE [chunk EXCEPT !.metadata =
            [key \in DOMAIN chunk.metadata \cup {"relevance_score", "filtering_reason"} |->
                IF key = "relevance_score" THEN score
                ELSE IF key = "filtering_reason" THEN reason
                ELSE chunk.metadata[key]]]

\* an annotation that replaces the metadata by the two keys it writes
AnnotateReplacing(chunk, score, reason) ==
    [chunk EXCEPT !.metadata = [relevance_score |-> score,
                                filtering_reason |-> reason]]

\* chunk["metadata"]["relevance_score"] = float(score)
\* chunk["metadata"]["filtering_reason"] = reason
Annotate(chunk, score, reason) ==
    LET md == chunk.metadata
    IN [chunk EXCEPT !.metadata =
          [key \in DOMAIN md \cup {"relevance_score", "filtering_reason"} |->
              IF key = "relevance_score" THEN score
              ELSE IF key = "filtering_reason" THEN reason
              ELSE md[key]]]

\* the chunk list after the annotations ws (position, score, reason), in order
RECURSIVE ApplyAnnotations(_, _)
ApplyAnnotations(chunk_list, ws) ==
    IF Len(ws) = 0 THEN chunk_list
    ELSE ApplyAnnotations(
            [chunk_list EXCEPT ![ws[1].pos] = Annotate(@, ws[1].score, ws[1].reason)],
            Tail(ws))

HasAnnotation(chunk) ==
    \/ "relevance_score" \in DOMAIN chunk.metadata
    \/ "filtering_reason" \in DOMAIN chunk.metadata

\* the position in a Python list of length n that the index id stands for
\* (ids count from 0; a negative id counts from the end of the list)
PyPos(id, n) ==
    IF id >= 0 THEN id + 1 ELSE n + id + 1

Min(a, b) ==
    IF a < b THEN a ELSE b

\* Python's None, and a value that is not None
None == <<>>

Some(v) == <<v>>

(***************************************************************************)
(* The classifier and the encoder evaluated once per query, text, keyword  *)
(***************************************************************************)
IsRelated ==
    Table([q \in Queries |-> is_university_related(q)])

KeywordList ==
    Table([q \in Queries |-> Table([s \in Seeds |-> extract_university_keywords(q, s)])])

\* any(keyword in chunk_text_lower for keyword in extract_keywords(query))
KeywordMatch ==
    Table([q \in Queries |-> Table([t \in Texts |-> AnyKeywordIn(found_keywords(q), Lower(t))])])

AppendedTerms ==
    Table([q \in Queries |-> Table([s \in Seeds |-> appended_terms(q, s)])])

EnhancedQuery ==
    Table([q \in Queries |-> Table([s \in Seeds |-> enhance_query(q, s)])])

EnhancedVector ==
    Table([q \in Queries |-> Table([s \in Seeds |->
                                  Apply(LAMBDA e : encode(e), EnhancedQuery[q][s])])])

\* a search that embeds the query as the caller wrote it
original_embedding(query, salt) ==
    encode(query)

\* lines 284 and 287: the vector of the enhanced query
query_embedding(query, salt) ==
    EnhancedVector[query][salt]

TextVector ==
    Table([t \in Texts |-> encode(t)])

(***************************************************************************)
(* search_similar_chunks and its helpers.  A list of chunks is a list of   *)
(* positions in self.chunks: the lists hold the chunk objects themselves,  *)
(* not copies.                                                             *)
(***************************************************************************)
\* lines 283-299: enhance, encode, search min(3k, len(chunks)), map ids to chunks
primary_results(ix, chunk_list, query, k, salt, m) ==
    LET search_k == Min(k * 3, Len(chunk_list))
        hits == IndexSearch(ix, query_embedding(query, salt), search_k, m)
        kept == SelectSeq(hits, LAMBDA h : h.id < Len(chunk_list))
    IN List([i \in 1..Len(kept) |->
               [pos |-> PyPos(kept[i].id, Len(chunk_list)), score |-> kept[i].score]])

\* a policy with the lenient threshold for every query
AcceptsLenient(query, text, score) ==
    score >= dynamic_threshold

\* a policy in which a keyword match never lowers the threshold
AcceptsScoreOnly(query, text, score) ==
    score >= relevance_threshold

\* the threshold policy of _smart_chunk_filtering for one (chunk, score)
Accepts(query, text, score) ==
    IF IsRelated[query]
    THEN /\ score >= dynamic_threshold
         /\ (KeywordMatch[query][text] \/ score >= relevance_threshold)
    ELSE score >= relevance_threshold

\* sorted(zip(chunks, scores), key=lambda x: x[1], reverse=True): stable
SortedByScore(results) ==
    LET n == Len(results)
        before(j, i) == \/ results[j].score > results[i].score
                        \/ (results[j].score = results[i].score /\ j < i)
        rank(i) == 1 + Cardinality({j \in 1..n : before(j, i)})
    IN List([r \in 1..n |-> results[CHOOSE i \in 1..n : rank(i) = r]])

\* sorted_chunks[:2]
FallbackTwo(results) ==
    Take(SortedByScore(results), 2)

\* sorted_chunks, all of them
FallbackAll(results) ==
    SortedByScore(results)

\* sorted_chunks[:3]
FallbackBest(results) ==
    Take(SortedByScore(results), 3)

\* _smart_chunk_filtering: the accepted chunks with the annotation each gets
smart_chunk_filtering(query, chunk_list, results) ==
    LET passed == SelectSeq(results,
                     LAMBDA r : Accepts(query, chunk_list[r.pos].text, r.score))
        reason == IF IsRelated[query] THEN "university_related" ELSE "high_relevance"
        best == FallbackBest(results)
    IN IF Len(passed) > 0
       THEN List([i \in 1..Len(passed) |->
                    [pos |-> passed[i].pos, score |-> passed[i].score,
                     reason |-> reason]])
       ELSE List([i \in 1..Len(best) |->
                    [pos |-> best[i].pos, score |-> best[i].score,
                     reason |-> "fallback_best_match"]])

\* a test on the count alone
ScarceOnly(query, relevant_count) ==
    relevant_count < 3

\* a test that also takes three relevant chunks for too few
NeedsBroadUpToThree(query, relevant_count) ==
    relevant_count <= 3 /\ IsRelated[query]

\* line 305: whether the broader search is tried
NeedsBroadSearch(query, relevant_count) ==
    relevant_count < 3 /\ IsRelated[query]

\* line 348: the acceptance of one keyword-search hit
BroadAccepts(score) ==
    score >= broad_threshold

\* _broad_search: the chunks it appends with the annotation each gets
broad_search(ix, chunk_list, query, k, salt, m) ==
    LET keywords == Take(KeywordList[query][salt], 3)
        hits(j) == IndexSearch(ix, encode(keywords[j]), k, m)
        kept(j) == SelectSeq(hits(j),
                      LAMBDA h : h.id < Len(chunk_list) /\ BroadAccepts(h.score))
    IN Flatten(List([j \in 1..Len(keywords) |->
                  Apply(LAMBDA found :
                           List([i \in 1..Len(found) |->
                                   [pos |-> PyPos(found[i].id, Len(chunk_list)),
                                    score |-> found[i].score,
                                    reason |-> "keyword_search"]]),
                        kept(j))]))

\* lines 312-319: the loop that drops repeated texts and stops at k
RECURSIVE DedupLoop(_, _, _, _, _)
DedupLoop(chunk_list, rest, k, seen_texts, final_chunks) ==
    IF Len(rest) = 0 THEN final_chunks
    ELSE LET text == chunk_list[Head(rest)].text
         IN IF text \notin seen_texts
            THEN IF Len(final_chunks) + 1 >= k
                 THEN Append(final_chunks, Head(rest))
                 ELSE DedupLoop(chunk_list, Tail(rest), k, seen_texts \cup {text},
                                Append(final_chunks, Head(rest)))
            ELSE DedupLoop(chunk_list, Tail(rest), k, seen_texts, final_chunks)

\* the loop without its stop at k
DedupOnly(chunk_list, relevant, k) ==
    DedupLoop(chunk_list, relevant, Len(relevant) + 1, {}, <<>>)

\* the stop at k without the test on seen_texts
LimitOnly(chunk_list, relevant, k) ==
    Take(relevant, k)

remove_duplicates_and_limit(chunk_list, relevant, k) ==
    DedupLoop(chunk_list, relevant, k, {}, <<>>)

Positions(annotated) ==
    List([i \in 1..Len(annotated) |-> annotated[i].pos])

(***************************************************************************)
(* State                                                                   *)
(***************************************************************************)
VARIABLES
    index,      \* self.index: None, or the stored vectors in order
    chunks,     \* self.chunks: None, or the list of chunks (text, metadata)
    disk,       \* the files of the embeddings folder, by filename prefix
    seed,       \* the hash salt of the running process
    model,      \* the embedding model the manager was built with
    searches,   \* search_similar_chunks calls made so far
    creates,    \* create_embeddings calls made so far
    pc,         \* where each caller's search_similar_chunks stands
    call        \* the locals of each caller's search_similar_chunks

vars == <<index, chunks, disk, seed, model, searches, creates, pc, call>>

Prefixes == {"university_combined"}

\* the chunk lists given to create_embeddings, the empty list among them
Corpora ==
    UNION {[1..n -> Texts] : n \in 0..MaxChunks}

KValues == 0..MaxK

\* the locals of a call that has not started
IdleCall ==
    [query |-> <<>>, k |-> 0, sources |-> <<>>,
     keywords |-> <<>>, terms |-> <<>>, enhanced |-> <<>>,
     results |-> <<>>, filtered |-> <<>>,
     broadened |-> FALSE, additional |-> <<>>, relevant |-> <<>>,
     final |-> <<>>, returned |-> <<>>, error |-> "none",
     lines |-> <<>>, preserved_lines |-> <<>>]

NoCalls ==
    [t \in Threads |-> IdleCall]

AllIdle ==
    [t \in Threads |-> "idle"]

\* the manager after __init__, nothing persisted yet
Init ==
    /\ index = None
    /\ chunks = None
    /\ disk = [p \in Prefixes |-> [faiss |-> None, pkl |-> None]]
    /\ seed \in Seeds
    /\ model \in Models
    /\ searches = 0
    /\ creates = 0
    /\ pc = AllIdle
    /\ call = NoCalls

(***************************************************************************)
(* The steps of search_similar_chunks on the locals of one call            *)
(***************************************************************************)
\* lines 283-299
SearchStep(ix, chunk_list, query, k) ==
    [IdleCall EXCEPT !.query = query, !.k = k,
                     !.terms = AppendedTerms[query][seed],
                     !.enhanced = EnhancedQuery[query][seed],
                     !.results = primary_results(ix, chunk_list, query, k, seed, model)]

\* line 302: the filter annotates the chunks it accepts
FilterStep(chunk_list, c) ==
    LET filtered == smart_chunk_filtering(c.query, chunk_list, c.results)
    IN [chunks |-> ApplyAnnotations(chunk_list, filtered),
        call |-> [c EXCEPT !.filtered = filtered, !.relevant = Positions(filtered)]]

\* lines 305-309: the broader search annotates the chunks it appends
BroadStep(ix, chunk_list, c) ==
    IF NeedsBroadSearch(c.query, Len(c.relevant))
    THEN LET additional == broad_search(ix, chunk_list, c.query, c.k, seed, model)
         IN [chunks |-> ApplyAnnotations(chunk_list, additional),
             call |-> [c EXCEPT !.broadened = TRUE,
                                !.keywords = KeywordList[c.query][seed],
                                !.additional = additional,
                                !.relevant = c.relevant \o Positions(additional)]]
    ELSE [chunks |-> chunk_list, call |-> c]

\* lines 312-321: the returned list holds the chunk objects of self.chunks
FinishStep(chunk_list, c) ==
    LET final == remove_duplicates_and_limit(chunk_list, c.relevant, c.k)
    IN [c EXCEPT !.final = final,
                 !.returned = List([i \in 1..Len(final) |-> chunk_list[final[i]]])]

(***************************************************************************)
(* Operations, one caller at a time                                        *)
(***************************************************************************)
\* lines 54-59 for an empty list of texts: encode([]) returns an array with
\* no second dimension in some builds, and line 57 raises IndexError with
\* self.index left as it was; in the others the index is built with no vector
EmptyIndexOutcomes ==
    {index, Some(<<>>)}

\* line 50 assigns self.chunks before the embeddings are computed
create_embeddings(corpus) ==
    /\ creates < MaxCreates
    /\ creates' = creates + 1
    /\ chunks' = Some(List([i \in 1..Len(corpus) |-> NewChunk(corpus[i])]))
    /\ IF Len(corpus) > 0
       THEN index' = Some(List([i \in 1..Len(corpus) |-> TextVector[corpus[i]]]))
       ELSE index' \in EmptyIndexOutcomes
    /\ pc' = AllIdle
    /\ call' = NoCalls
    /\ UNCHANGED <<disk, seed, model, searches>>

save_embeddings(prefix) ==
    /\ index # None
    /\ chunks # None
    /\ disk' = [disk EXCEPT ![prefix] = [faiss |-> index, pkl |-> chunks]]
    /\ UNCHANGED <<index, chunks, seed, model, searches, creates, pc, call>>

\* a test that looks for the index file only
index_file_exists(prefix) ==
    disk[prefix].faiss # None

\* line 97: both files of the prefix exist
files_exist(prefix) ==
    /\ disk[prefix].faiss # None
    /\ disk[prefix].pkl # None

load_embeddings(prefix) ==
    /\ files_exist(prefix)
    /\ index' = disk[prefix].faiss
    /\ chunks' = disk[prefix].pkl
    /\ pc' = AllIdle
    /\ call' = NoCalls
    /\ UNCHANGED <<disk, seed, model, searches, creates>>

\* a guard that lets a half-initialised manager through
RaisesIfBothMissing(query, k) ==
    IF index = None /\ chunks = None THEN {"ValueError"}
    ELSE IF Min(k * 3, Len(chunks[1])) = 0 THEN {"AssertionError"}
    ELSE {}

\* lines 280-281, and index.search called with search_k = 0: the FAISS builds
\* whose search asserts k > 0 raise there, the others return no hit
Raises(query, k) ==
    IF index = None \/ chunks = None THEN {"ValueError"}
    ELSE IF Min(k * 3, Len(chunks[1])) = 0 THEN {"AssertionError"}
    ELSE {}

Raise(t, query, k, error) ==
    /\ pc' = [pc EXCEPT ![t] = "raised"]
    /\ call' = [call EXCEPT ![t] = [IdleCall EXCEPT !.query = query, !.k = k,
                                                    !.error = error]]

\* no caller is between the index search and the return of a query
NoQueryInFlight ==
    \A u \in Threads : pc[u] \notin {"searched", "filtered", "broadened"}

search_similar_chunks(t, query, k) ==
    /\ searches < MaxSearches
    /\ searches' = searches + 1
    /\ NoQueryInFlight
    /\ \/ /\ \E error \in Raises(query, k) : Raise(t, query, k, error)
          /\ UNCHANGED chunks
       \/ /\ index # None
          /\ chunks # None
          /\ \E searched \in {SearchStep(index[1], chunks[1], query, k)} :
             \E filtered \in {FilterStep(chunks[1], searched)} :
             \E broadened \in {BroadStep(index[1], filtered.chunks, filtered.call)} :
                /\ chunks' = Some(broadened.chunks)
                /\ call' = [call EXCEPT ![t] = FinishStep(broadened.chunks,
                                                          broadened.call)]
                /\ pc' = [pc EXCEPT ![t] = "returned"]
    /\ UNCHANGED <<index, disk, seed, model, creates>>

Next ==
    \/ \E corpus \in Corpora : create_embeddings(corpus)
    \/ \E prefix \in Prefixes : save_embeddings(prefix)
    \/ \E prefix \in Prefixes : load_embeddings(prefix)
    \/ \E query \in Queries, k \in KValues : search_similar_chunks("t1", query, k)

Spec == Init /\ [][Next]_vars

(***************************************************************************)
(* Two callers of search_similar_chunks on one loaded manager, their steps *)
(* interleaved between the index search, the filter, the broader search    *)
(* and the return                                                          *)
(***************************************************************************)
\* the manager after load_embeddings of a corpus saved before any search
InitConc ==
    /\ \E corpus \in Corpora :
          /\ Len(corpus) \in 1..MaxConcChunks
          /\ chunks = Some(List([i \in 1..Len(corpus) |-> NewChunk(corpus[i])]))
          /\ index = Some(List([i \in 1..Len(corpus) |-> TextVector[corpus[i]]]))
          /\ disk = [p \in Prefixes |-> [faiss |-> index, pkl |-> chunks]]
    /\ seed \in Seeds
    /\ model \in Models
    /\ searches = 0
    /\ creates = 0
    /\ pc = AllIdle
    /\ call = NoCalls

\* lines 280-299
CallSearch(t, query, k) ==
    /\ pc[t] = "idle"
    /\ searches < MaxSearches
    /\ searches' = searches + 1
    /\ \/ \E error \in Raises(query, k) : Raise(t, query, k, error)
       \/ /\ call' = [call EXCEPT ![t] = SearchStep(index[1], chunks[1], query, k)]
          /\ pc' = [pc EXCEPT ![t] = "searched"]
    /\ UNCHANGED <<index, chunks, disk, seed, model, creates>>

\* line 302
CallFilter(t) ==
    /\ pc[t] = "searched"
    /\ \E filtered \in {FilterStep(chunks[1], call[t])} :
          /\ chunks' = Some(filtered.chunks)
          /\ call' = [call EXCEPT ![t] = filtered.call]
    /\ pc' = [pc EXCEPT ![t] = "filtered"]
    /\ UNCHANGED <<index, disk, seed, model, searches, creates>>

\* lines 305-309
CallBroad(t) ==
    /\ pc[t] = "filtered"
    /\ \E broadened \in {BroadStep(index[1], chunks[1], call[t])} :
          /\ chunks' = Some(broadened.chunks)
          /\ call' = [call EXCEPT ![t] = broadened.call]
    /\ pc' = [pc EXCEPT ![t] = "broadened"]
    /\ UNCHANGED <<index, disk, seed, model, searches, creates>>

\* lines 312-321
CallFinish(t) ==
    /\ pc[t] = "broadened"
    /\ call' = [call EXCEPT ![t] = FinishStep(chunks[1], call[t])]
    /\ pc' = [pc EXCEPT ![t] = "returned"]
    /\ UNCHANGED <<index, chunks, disk, seed, model, searches, creates>>

NextConc ==
    \/ \E t \in Threads, query \in Queries, k \in KValues : CallSearch(t, query, k)
    \/ \E t \in Threads : CallFilter(t)
    \/ \E t \in Threads : CallBroad(t)
    \/ \E t \in Threads : CallFinish(t)

SpecConc == InitConc /\ [][NextConc]_vars

(***************************************************************************)
(* A manager that serves queries while another thread replaces the corpus. *)
(* The manager has no lock: the two assignments of create_embeddings and   *)
(* of load_embeddings are separate steps.  A query holds the chunk objects *)
(* it read, so the runs followed here are those in which the chunk list    *)
(* is replaced while no query is between its index search and its return.  *)
(***************************************************************************)
\* a loaded manager, and on disk a pair saved from another corpus
InitSwap ==
    /\ \E old \in Corpora, new \in Corpora :
          /\ Len(old) \in 1..MaxConcChunks
          /\ Len(new) \in 1..MaxConcChunks
          /\ chunks = Some(List([i \in 1..Len(old) |-> NewChunk(old[i])]))
          /\ index = Some(List([i \in 1..Len(old) |-> TextVector[old[i]]]))
          /\ disk = [p \in Prefixes |->
                       [faiss |-> Some(List([i \in 1..Len(new) |-> TextVector[new[i]]])),
                        pkl |-> Some(List([i \in 1..Len(new) |-> NewChunk(new[i])]))]]
    /\ seed \in Seeds
    /\ model \in Models
    /\ searches = 0
    /\ creates = 0
    /\ pc = AllIdle
    /\ call = NoCalls

\* create_embeddings, lines 50-54: self.chunks is the new list, the index is
\* still the old one while the texts are encoded
CreateAssignChunks(t, corpus) ==
    /\ pc[t] = "idle"
    /\ NoQueryInFlight
    /\ creates < MaxCreates
    /\ creates' = creates + 1
    /\ Len(corpus) \in 1..MaxSwapChunks
    /\ chunks' = Some(List([i \in 1..Len(corpus) |-> NewChunk(corpus[i])]))
    /\ pc' = [pc EXCEPT ![t] = "creating"]
    /\ UNCHANGED <<index, disk, seed, model, searches, call>>

\* create_embeddings, lines 57-59: the index of the encoded texts
CreateAssignIndex(t) ==
    /\ pc[t] = "creating"
    /\ index' = Some(List([i \in 1..Len(chunks[1]) |-> TextVector[chunks[1][i].text]]))
    /\ pc' = [pc EXCEPT ![t] = "idle"]
    /\ UNCHANGED <<chunks, disk, seed, model, searches, creates, call>>

\* load_embeddings(), lines 93-101: self.index is the index read from disk
LoadAssignIndex(t) ==
    /\ pc[t] = "idle"
    /\ NoQueryInFlight
    /\ disk["university_combined"].faiss # None
    /\ disk["university_combined"].pkl # None
    /\ index' = disk["university_combined"].faiss
    /\ pc' = [pc EXCEPT ![t] = "loading"]
    /\ UNCHANGED <<chunks, disk, seed, model, searches, creates, call>>

\* load_embeddings(), lines 104-107: self.chunks is the list read from disk
LoadAssignChunks(t) ==
    /\ pc[t] = "loading"
    /\ NoQueryInFlight
    /\ chunks' = disk["university_combined"].pkl
    /\ pc' = [pc EXCEPT ![t] = "idle"]
    /\ UNCHANGED <<index, disk, seed, model, searches, creates, call>>

\* one caller replaces the corpus, the other asks
NextSwap ==
    \/ \E corpus \in Corpora : CreateAssignChunks("t2", corpus)
    \/ CreateAssignIndex("t2")
    \/ LoadAssignIndex("t2")
    \/ LoadAssignChunks("t2")
    \/ \E query \in Queries, k \in KValues : CallSearch("t1", query, k)
    \/ CallFilter("t1")
    \/ CallBroad("t1")
    \/ CallFinish("t1")

SpecSwap == InitSwap /\ [][NextSwap]_vars

(***************************************************************************)
(* The keyword extractor and the query enhancer applied to the words and   *)
(* two-word phrases a caller may type                                      *)
(***************************************************************************)
WFees ==
    <<"F","E","E","S">>

WHelpful ==
    <<"h","e","l","p","f","u","l">>

Words ==
    { <<"S","t","u","d","e","n","t">>,
      WFees,
      <<"a","d","m","i","s","s","i","o","n">>,
      <<"w","e","a","t","h","e","r">>,
      <<"P","r","o","f","e","s","s","o","r">>,
      WHelpful,
      <<"C","a","m","p","u","s">>,
      <<"t","o","d","a","y">> }

QueryInputs ==
    Words \cup {a \o <<" ">> \o b : a \in Words, b \in Words}

\* a manager after __init__ and a caller about to pass a query
InitQuery ==
    /\ index = None
    /\ chunks = None
    /\ disk = [p \in Prefixes |-> [faiss |-> None, pkl |-> None]]
    /\ seed \in Seeds
    /\ model \in Models
    /\ searches = 0
    /\ creates = 0
    /\ pc = AllIdle
    /\ \E query \in QueryInputs :
          call = [NoCalls EXCEPT !["t1"] = [IdleCall EXCEPT !.query = query]]

\* _extract_university_keywords(query), lines 149-158
ExtractKeywords(t) ==
    /\ pc[t] = "idle"
    /\ call' = [call EXCEPT ![t].keywords =
                    extract_university_keywords(call[t].query, seed)]
    /\ pc' = [pc EXCEPT ![t] = "extracted"]
    /\ UNCHANGED <<index, chunks, disk, seed, model, searches, creates>>

\* _enhance_query(query), lines 194-213
EnhanceQuery(t) ==
    /\ pc[t] = "idle"
    /\ call' = [call EXCEPT ![t].terms = appended_terms(call[t].query, seed),
                            ![t].enhanced = enhance_query(call[t].query, seed)]
    /\ pc' = [pc EXCEPT ![t] = "enhanced"]
    /\ UNCHANGED <<index, chunks, disk, seed, model, searches, creates>>

NextQuery ==
    \/ ExtractKeywords("t1")
    \/ EnhanceQuery("t1")

SpecQuery == InitQuery /\ [][NextQuery]_vars

(***************************************************************************)
(* One persisted pair searched in the process that saved it and in a       *)
(* process started later, which builds a manager and loads the pair.  The  *)
(* caller t1 belongs to the first process, t2 to the second; each process  *)
(* has its own string hash seed.                                           *)
(***************************************************************************)
\* the first process after create_embeddings and save_embeddings
InitRestart ==
    /\ \E corpus \in Corpora :
          /\ Len(corpus) \in 1..MaxRestartChunks
          /\ chunks = Some(List([i \in 1..Len(corpus) |-> NewChunk(corpus[i])]))
          /\ index = Some(List([i \in 1..Len(corpus) |-> TextVector[corpus[i]]]))
          /\ disk = [p \in Prefixes |-> [faiss |-> index, pkl |-> chunks]]
    /\ seed \in Seeds
    /\ model \in Models
    /\ searches = 0
    /\ creates = 0
    /\ pc = [AllIdle EXCEPT !["t2"] = "unborn"]
    /\ call = NoCalls

\* a caller of the running process asks once
ProcessSearch(t, query, k) ==
    /\ pc[t] = "idle"
    /\ search_similar_chunks(t, query, k)

\* the first process ends; a new one runs EmbeddingsManager() and
\* load_embeddings() (test_enhanced_features.py, lines 20-22) under its own
\* hash seed; what the first process returned stays on record
NewProcess ==
    /\ pc["t2"] = "unborn"
    /\ disk["university_combined"].faiss # None
    /\ disk["university_combined"].pkl # None
    /\ seed' \in Seeds
    /\ index' = disk["university_combined"].faiss
    /\ chunks' = disk["university_combined"].pkl
    /\ pc' = [pc EXCEPT !["t1"] = IF pc["t1"] = "idle" THEN "exited" ELSE pc["t1"],
                        !["t2"] = "idle"]
    /\ UNCHANGED <<disk, model, searches, creates, call>>

NextRestart ==
    \/ \E t \in Threads, query \in Queries, k \in KValues : ProcessSearch(t, query, k)
    \/ NewProcess

SpecRestart == InitRestart /\ [][NextRestart]_vars

(***************************************************************************)
(* combine_embeddings over corpora persisted under source prefixes, with   *)
(* the other operations that replace or persist the pair.  Queries, which  *)
(* write chunk metadata only, are left to the specifications above.        *)
(***************************************************************************)
Sources == {"handbook", "catalog"}

\* the lists of prefixes given to combine_embeddings
SourceLists ==
    UNION {[1..n -> Sources] : n \in 0..MaxSources}

\* the corpora persisted under the source prefixes
SourceCorpora ==
    {corpus \in Corpora : Len(corpus) \in 1..MaxSourceChunks}

NoFiles ==
    [faiss |-> None, pkl |-> None]

\* the two files save_embeddings wrote after create_embeddings(corpus)
SavedPair(corpus) ==
    [faiss |-> Some(List([i \in 1..Len(corpus) |-> TextVector[corpus[i]]])),
     pkl |-> Some(List([i \in 1..Len(corpus) |-> NewChunk(corpus[i])]))]

\* a manager after __init__; under each source prefix either no file or a
\* pair saved by an earlier run, nothing under the default prefix
InitCombine ==
    /\ index = None
    /\ chunks = None
    /\ \E files \in [Sources -> {NoFiles} \cup
                        {SavedPair(corpus) : corpus \in SourceCorpora}] :
          disk = [p \in Prefixes \cup Sources |->
                    IF p \in Sources THEN files[p] ELSE NoFiles]
    /\ seed \in Seeds
    /\ model \in Models
    /\ searches = 0
    /\ creates = 0
    /\ pc = AllIdle
    /\ call = NoCalls

\* a loop that reads the newest source first
RECURSIVE read_sources_prepending(_, _)
read_sources_prepending(sources, all_chunks) ==
    IF Len(sources) = 0 THEN Some(all_chunks)
    ELSE IF disk[Head(sources)].pkl = None THEN None
    ELSE read_sources_prepending(Tail(sources), disk[Head(sources)].pkl[1] \o all_chunks)

\* a loop that skips the sources whose chunk file is missing
RECURSIVE read_existing_sources(_, _)
read_existing_sources(sources, all_chunks) ==
    IF Len(sources) = 0 THEN Some(all_chunks)
    ELSE IF disk[Head(sources)].pkl = None
    THEN read_existing_sources(Tail(sources), all_chunks)
    ELSE read_existing_sources(Tail(sources), all_chunks \o disk[Head(sources)].pkl[1])

\* lines 119-129: all_chunks after the loop, or None where line 125 returns
\* False at the first source whose chunk file is missing
RECURSIVE read_sources(_, _)
read_sources(sources, all_chunks) ==
    IF Len(sources) = 0 THEN Some(all_chunks)
    ELSE IF disk[Head(sources)].pkl = None THEN None
    ELSE read_sources(Tail(sources), all_chunks \o disk[Head(sources)].pkl[1])

\* lines 51-59: the index of the embeddings of the chunk texts
Embedded(chunk_list) ==
    List([i \in 1..Len(chunk_list) |-> TextVector[chunk_list[i].text]])

\* line 125: return False
Refuse(t, sources) ==
    /\ pc' = [pc EXCEPT ![t] = "refused"]
    /\ call' = [call EXCEPT ![t] = [IdleCall EXCEPT !.sources = sources]]
    /\ UNCHANGED <<index, chunks, disk, creates>>

\* lines 132-137: create_embeddings(all_chunks), save_embeddings under the
\* default prefix, return True
Combine(t, sources, all_chunks, ix) ==
    /\ creates' = creates + 1
    /\ chunks' = Some(all_chunks)
    /\ index' = Some(ix)
    /\ disk' = [disk EXCEPT !["university_combined"] =
                                [faiss |-> Some(ix), pkl |-> Some(all_chunks)]]
    /\ pc' = [AllIdle EXCEPT ![t] = "combined"]
    /\ call' = [NoCalls EXCEPT ![t] = [IdleCall EXCEPT !.sources = sources]]

\* line 132 with no chunk at all: create_embeddings has assigned self.chunks
\* and raises at line 57; nothing is saved
CombineRaises(t, sources) ==
    /\ creates' = creates + 1
    /\ chunks' = Some(<<>>)
    /\ pc' = [AllIdle EXCEPT ![t] = "raised"]
    /\ call' = [NoCalls EXCEPT ![t] = [IdleCall EXCEPT !.sources = sources,
                                                       !.error = "IndexError"]]
    /\ UNCHANGED <<index, disk>>

combine_embeddings(t, sources) ==
    /\ pc[t] = "idle"
    /\ NoQueryInFlight
    /\ \E read \in {read_sources(sources, <<>>)} :
          IF read = None THEN Refuse(t, sources)
          ELSE /\ creates < MaxCreates
               /\ IF Len(read[1]) > 0
                  THEN Combine(t, sources, read[1], Embedded(read[1]))
                  ELSE \/ CombineRaises(t, sources)
                       \/ Combine(t, sources, <<>>, <<>>)
    /\ UNCHANGED <<seed, model, searches>>

NextCombine ==
    \/ \E corpus \in SourceCorpora \cup {<<>>} : create_embeddings(corpus)
    \/ \E prefix \in Prefixes : save_embeddings(prefix)
    \/ \E prefix \in Prefixes \cup Sources : load_embeddings(prefix)
    \/ \E sources \in SourceLists : combine_embeddings("t1", sources)

SpecCombine == InitCombine /\ [][NextCombine]_vars

(***************************************************************************)
(* load_embeddings asked for prefixes of which either file may be absent,  *)
(* with the value it returns kept by its caller                            *)
(***************************************************************************)
LoadPrefixes == Prefixes \cup {"handbook"}

\* the corpora behind the files load_embeddings looks for
LoadCorpora ==
    {corpus \in Corpora : Len(corpus) \in 1..MaxLoadChunks}

\* what may lie under one prefix: each of the two files absent or left by a
\* save_embeddings, the two not necessarily by the same one
FilesUnderPrefix ==
    [faiss : {None} \cup {SavedPair(corpus).faiss : corpus \in LoadCorpora},
     pkl : {None} \cup {SavedPair(corpus).pkl : corpus \in LoadCorpora}]

\* a manager after __init__ or after create_embeddings
InitLoad ==
    /\ \/ /\ index = None
          /\ chunks = None
       \/ \E corpus \in LoadCorpora :
             /\ index = SavedPair(corpus).faiss
             /\ chunks = SavedPair(corpus).pkl
    /\ disk \in [LoadPrefixes -> FilesUnderPrefix]
    /\ seed \in Seeds
    /\ model \in Models
    /\ searches = 0
    /\ creates = 0
    /\ pc = AllIdle
    /\ call = NoCalls

\* load_embeddings(filename_prefix) called by t: lines 97-98 return False,
\* lines 100-107 replace the index and the chunks and return True
LoadCall(t, prefix) ==
    /\ pc[t] = "idle"
    /\ IF files_exist(prefix)
       THEN /\ index' = disk[prefix].faiss
            /\ chunks' = disk[prefix].pkl
            /\ pc' = [AllIdle EXCEPT ![t] = "load_true"]
            /\ call' = [NoCalls EXCEPT ![t] = [IdleCall EXCEPT !.sources = <<prefix>>]]
            /\ UNCHANGED <<disk, seed, model, searches, creates>>
       ELSE /\ pc' = [pc EXCEPT ![t] = "load_false"]
            /\ call' = [call EXCEPT ![t] = [IdleCall EXCEPT !.sources = <<prefix>>]]
            /\ UNCHANGED <<index, chunks, disk, seed, model, searches, creates>>

NextLoad ==
    \/ \E t \in Threads, prefix \in LoadPrefixes : LoadCall(t, prefix)
    \/ \E prefix \in LoadPrefixes : save_embeddings(prefix)

SpecLoad == InitLoad /\ [][NextLoad]_vars

(***************************************************************************)
(* pdf_loader.py: preserve_important_sections on the lines of a page.  An  *)
(* output line is kept with the positions of the input lines it was made   *)
(* of.                                                                     *)
(***************************************************************************)
MaxLines == 6

\* re.search(pattern, line) for each pattern of is_table_line, with \d, [A-Z],
\* [a-z] and \s on one character
is_table_line(line) ==
    LET n == Len(line)
        IsDigit(c) == c \in {"0","1","2","3","4","5","6","7","8","9"}
        IsUpper(c) == c \in Range(UpperCase)
        IsLower(c) == c \in Range(LowerCase)
        IsSpace(c) == c \in {" ", "\t"}
        \* \s+ fills the places between i and j
        SpacesBetween(i, j) ==
            /\ j > i + 1
            /\ \A m \in (i + 1)..(j - 1) : IsSpace(line[m])
    IN \/ \E i, j \in 1..n :                      \* \d+\s+\d+
             IsDigit(line[i]) /\ IsDigit(line[j]) /\ SpacesBetween(i, j)
       \/ \E i, a, j \in 1..n :                   \* [A-Z][a-z]+\s+\d+
             /\ IsUpper(line[i])
             /\ a > i
             /\ \A m \in (i + 1)..a : IsLower(line[m])
             /\ SpacesBetween(a, j)
             /\ IsDigit(line[j])
       \/ \E i \in 1..(n - 1) :                   \* \$\d+
             line[i] = "$" /\ IsDigit(line[i + 1])
       \/ \E i \in 1..(n - 2) :                   \* \d+\.\d+
             IsDigit(line[i]) /\ line[i + 1] = "." /\ IsDigit(line[i + 2])
       \/ \E i, j \in 1..n :                      \* [A-Z]+\s+[A-Z]+
             IsUpper(line[i]) /\ IsUpper(line[j]) /\ SpacesBetween(i, j)

\* the lines a page is made of: "Fee 100", "10 20", "$3.5", "FALL TERM" and
\* "Due soon"
PdfLines ==
    { <<"F","e","e"," ","1","0","0">>,
      <<"1","0"," ","2","0">>,
      <<"$","3",".","5">>,
      <<"F","A","L","L"," ","T","E","R","M">>,
      <<"D","u","e"," ","s","o","o","n">> }

IsTableLine ==
    Table([l \in PdfLines |-> is_table_line(l)])

\* ' |TABLE| '.join(table_group)
RECURSIVE JoinTable(_)
JoinTable(l) ==
    IF Len(l) = 0 THEN <<>>
    ELSE IF Len(l) = 1 THEN l[1]
    ELSE l[1] \o <<" ","|","T","A","B","L","E","|"," ">> \o JoinTable(Tail(l))

\* lines 142-146: the positions i .. j-1 of the group that starts at i, the
\* while loop stopping at the end of the page, at i + 5 or at a line that is
\* not table-like
table_group(page, i) ==
    LET n == Len(page)
        stops == {j \in (i + 1)..(n + 1) :
                     j > n \/ j >= i + 5 \/ ~IsTableLine[page[j]]}
        j == CHOOSE j \in stops : \A other \in stops : j <= other
    IN List([m \in 1..(j - i) |-> i + m - 1])

\* preserved_lines: the for loop of line 138 visits every position of the
\* page, the assignment i = j - 1 of line 150 being overwritten by the next
\* value of enumerate
preserve_important_sections(page) ==
    List([i \in 1..Len(page) |->
            Apply(LAMBDA group :
                     [from |-> group,
                      text |-> JoinTable(List([m \in 1..Len(group) |->
                                                 page[group[m]]]))],
                  IF IsTableLine[page[i]] THEN table_group(page, i) ELSE <<i>>)])

\* a caller about to pass text.split('\n') of a page: at least one line
InitPdf ==
    /\ index = None
    /\ chunks = None
    /\ disk = [p \in Prefixes |-> [faiss |-> None, pkl |-> None]]
    /\ seed \in Seeds
    /\ model \in Models
    /\ searches = 0
    /\ creates = 0
    /\ pc = AllIdle
    /\ \E page \in UNION {[1..n -> PdfLines] : n \in 1..MaxLines} :
          call = [NoCalls EXCEPT !["t1"].lines = List(page)]

PreserveImportantSections(t) ==
    /\ pc[t] = "idle"
    /\ call' = [call EXCEPT ![t].preserved_lines =
                    preserve_important_sections(call[t].lines)]
    /\ pc' = [pc EXCEPT ![t] = "preserved"]
    /\ UNCHANGED <<index, chunks, disk, seed, model, searches, creates>>

NextPdf ==
    PreserveImportantSections("t1")

SpecPdf == InitPdf /\ [][NextPdf]_vars

(***************************************************************************)
(* Properties of the list search_similar_chunks returns                    *)
(***************************************************************************)
\* the callers whose search_similar_chunks has returned its list
ReturnedCalls ==
    {t \in Threads : pc[t] = "returned"}

\* the texts of the chunks at the positions ps of self.chunks
TextsAt(ps) ==
    {chunks[1][ps[i]].text : i \in 1..Len(ps)}

\* C1: with corpus and index loaded, for every query and every k >= 0 the
\* list search_similar_chunks returns holds at most k chunks, also when the
\* broad search appended its results and when k = 0.
C1_AtMostK ==
    \A t \in ReturnedCalls : Len(call[t].returned) <= call[t].k

\* a call whose broad search appended chunks, with more distinct texts found
\* than k, and which returned exactly k chunks
C1_Witness ==
    \E t \in ReturnedCalls :
        /\ call[t].broadened
        /\ Len(call[t].additional) > 0
        /\ Cardinality(TextsAt(call[t].relevant)) > call[t].k
        /\ call[t].k >= 1
        /\ Len(call[t].returned) = call[t].k

\* C2: the list search_similar_chunks returns holds no two chunks with the
\* same text, also when the corpus holds one text several times and when the
\* broad search returns again a chunk the filter accepted.
C2_NoDuplicateTexts ==
    \A t \in ReturnedCalls :
        \A i, j \in 1..Len(call[t].returned) :
            i # j => call[t].returned[i].text # call[t].returned[j].text

\* a call whose filter accepted two chunks of one text, whose broad search
\* returned again a chunk the filter accepted, and which returned a chunk
C2_Witness ==
    \E t \in ReturnedCalls :
        /\ \E i, j \in 1..Len(call[t].filtered) :
              /\ call[t].filtered[i].pos # call[t].filtered[j].pos
              /\ chunks[1][call[t].filtered[i].pos].text
                    = chunks[1][call[t].filtered[j].pos].text
        /\ \E i \in 1..Len(call[t].filtered), j \in 1..Len(call[t].additional) :
              call[t].filtered[i].pos = call[t].additional[j].pos
        /\ call[t].k > Len(call[t].returned)
        /\ Len(call[t].returned) >= 1

\* the annotations one call wrote, in the order it wrote them
Written(c) ==
    c.filtered \o c.additional

\* the annotation a call wrote last on the chunk at position p
LastWritten(c, p) ==
    LET ws == Written(c)
        at == {i \in 1..Len(ws) : ws[i].pos = p}
    IN ws[CHOOSE i \in at : \A j \in at : j <= i]

\* the chunk carries the annotation w
Carries(chunk, w) ==
    /\ "relevance_score" \in DOMAIN chunk.metadata
    /\ "filtering_reason" \in DOMAIN chunk.metadata
    /\ chunk.metadata.relevance_score = w.score
    /\ chunk.metadata.filtering_reason = w.reason

\* C3: after any sequence of search_similar_chunks calls no chunk of the
\* manager's corpus carries relevance_score or filtering_reason, and the
\* corpus save_embeddings persists carries neither.
C3_NoLeakIntoCorpus ==
    /\ chunks # None => \A i \in 1..Len(chunks[1]) : ~HasAnnotation(chunks[1][i])
    /\ \A p \in Prefixes :
          disk[p].pkl # None =>
             \A i \in 1..Len(disk[p].pkl[1]) : ~HasAnnotation(disk[p].pkl[1][i])

\* C4: when two search_similar_chunks calls run concurrently on one loaded
\* corpus, every chunk in the list a call returns carries the relevance_score
\* and the filtering_reason this same call computed for it.
C4_NoRaceOnAnnotations ==
    \A t \in ReturnedCalls :
        \A i \in 1..Len(call[t].returned) :
            Carries(call[t].returned[i], LastWritten(call[t], call[t].final[i]))

\* C5: every chunk in a result of search_similar_chunks carries a
\* relevance_score and a filtering_reason written during this call, and the
\* reason is one of university_related, high_relevance, fallback_best_match,
\* keyword_search.
C5_AnnotatedThisCall ==
    \A t \in ReturnedCalls :
        \A i \in 1..Len(call[t].returned) :
            /\ \E j \in 1..Len(Written(call[t])) :
                  Written(call[t])[j].pos = call[t].final[i]
            /\ Carries(call[t].returned[i], LastWritten(call[t], call[t].final[i]))
            /\ call[t].returned[i].metadata.filtering_reason
                  \in {"university_related", "high_relevance",
                       "fallback_best_match", "keyword_search"}

\* a returned chunk that an earlier call had annotated otherwise: the corpus
\* saved between the two calls holds it with another reason
C5_Witness ==
    \E t \in ReturnedCalls, p \in Prefixes :
        /\ disk[p].pkl # None
        /\ Len(disk[p].pkl[1]) = Len(chunks[1])
        /\ \E i \in 1..Len(call[t].returned) :
              /\ HasAnnotation(disk[p].pkl[1][call[t].final[i]])
              /\ disk[p].pkl[1][call[t].final[i]].text = call[t].returned[i].text
              /\ disk[p].pkl[1][call[t].final[i]].metadata.filtering_reason
                    # call[t].returned[i].metadata.filtering_reason

\* C6: every chunk search_similar_chunks returns carries a relevance_score
\* within [0, 1], whatever the raw similarity and the acceptance path.
C6_ScoreInUnitInterval ==
    \A t \in ReturnedCalls :
        \A i \in 1..Len(call[t].returned) :
            /\ call[t].returned[i].metadata.relevance_score >= 0
            /\ call[t].returned[i].metadata.relevance_score <= 100

\* C7: the broad search runs if and only if fewer than 3 chunks come out of
\* the filter (fallback_best_match chunks counted) and the query is
\* institution-related.
C7_BroadSearchIff ==
    \A t \in ReturnedCalls :
        call[t].broadened
           <=> (Len(call[t].filtered) < 3 /\ IsRelated[call[t].query])

\* a call of a related query whose filter fell back to 1 or 2 best matches
\* and whose broad search ran
C7_Witness ==
    \E t \in ReturnedCalls :
        /\ call[t].broadened
        /\ Len(call[t].filtered) \in {1, 2}
        /\ \A i \in 1..Len(call[t].filtered) :
              call[t].filtered[i].reason = "fallback_best_match"

\* C8: for a query that is not institution-related, a chunk scoring below
\* 0.65 is in the filter's output only as fallback_best_match, and
\* fallback_best_match chunks are there only when no candidate reached 0.65.
C8_StrictForUnrelated ==
    \A t \in ReturnedCalls :
        ~IsRelated[call[t].query] =>
           \A i \in 1..Len(call[t].filtered) :
              /\ call[t].filtered[i].score < relevance_threshold
                    => call[t].filtered[i].reason = "fallback_best_match"
              /\ call[t].filtered[i].reason = "fallback_best_match"
                    => \A j \in 1..Len(call[t].results) :
                          call[t].results[j].score < relevance_threshold

\* an unrelated query whose candidates include one between the two
\* thresholds, none reaching 0.65, so that the filter fell back
C8_Witness ==
    \E t \in ReturnedCalls :
        /\ ~IsRelated[call[t].query]
        /\ \E i \in 1..Len(call[t].filtered) :
              /\ call[t].filtered[i].score >= dynamic_threshold
              /\ call[t].filtered[i].score < relevance_threshold
              /\ call[t].filtered[i].reason = "fallback_best_match"

\* no candidate of the call passes the threshold policy
NonePasses(c) ==
    \A j \in 1..Len(c.results) :
        ~Accepts(c.query, chunks[1][c.results[j].pos].text, c.results[j].score)

\* the candidates of the call that score above s
Above(c, s) ==
    {j \in 1..Len(c.results) : c.results[j].score > s}

\* the filter's output is the min(3, n) best of the n candidates, best first,
\* each tagged fallback_best_match
IsBestFallback(c) ==
    /\ Len(c.filtered) = Min(3, Len(c.results))
    /\ \A i \in 1..Len(c.filtered) :
          /\ c.filtered[i].reason = "fallback_best_match"
          /\ \E j \in 1..Len(c.results) :
                /\ c.results[j].pos = c.filtered[i].pos
                /\ c.results[j].score = c.filtered[i].score
          /\ Cardinality(Above(c, c.filtered[i].score)) <= i - 1
          /\ \A j \in 1..Len(c.filtered) :
                /\ i < j => c.filtered[i].score >= c.filtered[j].score
                /\ i # j => c.filtered[i].pos # c.filtered[j].pos

\* C9: whenever the index search yields a candidate the filter's output is
\* not empty; if no candidate passes the threshold policy the output is the
\* min(3, number of candidates) highest-scoring candidates in descending
\* order of score, each tagged fallback_best_match; and search_similar_chunks
\* with k >= 1 then returns a non-empty list.
C9_NeverEmptyOnCandidates ==
    \A t \in ReturnedCalls :
        Len(call[t].results) >= 1 =>
           /\ Len(call[t].filtered) >= 1
           /\ NonePasses(call[t]) => IsBestFallback(call[t])
           /\ call[t].k >= 1 => Len(call[t].returned) >= 1

\* a call with four candidates of which none passes, whose filter kept the
\* three best and left out a candidate scoring lower than the best
C9_Witness ==
    \E t \in ReturnedCalls :
        /\ Len(call[t].results) = 4
        /\ NonePasses(call[t])
        /\ Len(call[t].filtered) = 3
        /\ call[t].filtered[1].score > call[t].filtered[3].score
        /\ \E j \in 1..4 : call[t].results[j].score < call[t].filtered[3].score
        /\ Len(call[t].returned) >= 1

\* the query of the call is not institution-related and none of its
\* candidates reaches 0.65
UnrelatedAllBelow(c) ==
    /\ ~IsRelated[c.query]
    /\ \A j \in 1..Len(c.results) : c.results[j].score < relevance_threshold

\* the texts of the min(3, n) highest-scoring candidates of the call
BestTexts(c) ==
    {chunks[1][r.pos].text : r \in Range(Take(SortedByScore(c.results), 3))}

\* C10 as stated: for a query that is not institution-related and whose
\* candidates all score below 0.65, search_similar_chunks returns an empty
\* list or exactly 3 chunks tagged fallback_best_match, never 1 or 2, for
\* every k >= 0 and every corpus.
C10_EmptyOrExactlyThree ==
    \A t \in ReturnedCalls :
        UnrelatedAllBelow(call[t]) =>
           /\ Len(call[t].returned) \in {0, 3}
           /\ \A i \in 1..Len(call[t].returned) :
                 call[t].returned[i].metadata.filtering_reason = "fallback_best_match"

\* C10 as the code has it: for such a query the list holds min(k, d) chunks,
\* each tagged fallback_best_match, d being the number of distinct texts among
\* the min(3, n) highest-scoring of the n candidates; so never more than 3,
\* fewer than 3 when k, the corpus or its distinct texts are fewer, and none
\* only when there is no candidate.
C10_FallbackCount ==
    \A t \in ReturnedCalls :
        UnrelatedAllBelow(call[t]) =>
           /\ Len(call[t].returned) = Min(call[t].k, Cardinality(BestTexts(call[t])))
           /\ Len(call[t].returned) <= 3
           /\ Len(call[t].returned) = 0 <=> Len(call[t].results) = 0
           /\ \A i \in 1..Len(call[t].returned) :
                 call[t].returned[i].metadata.filtering_reason = "fallback_best_match"

\* such a call with four candidates that returned exactly 3 chunks
C10_Witness ==
    \E t \in ReturnedCalls :
        /\ UnrelatedAllBelow(call[t])
        /\ Len(call[t].results) = 4
        /\ Len(call[t].returned) = 3

(***************************************************************************)
(* The Relevance Filter on institution-related queries                     *)
(***************************************************************************)
\* candidate j of the call is in the filter's output with the given reason
AcceptedAs(c, j, reason) ==
    \E i \in 1..Len(c.filtered) :
        /\ c.filtered[i].pos = c.results[j].pos
        /\ c.filtered[i].score = c.results[j].score
        /\ c.filtered[i].reason = reason

\* the lowercased text of candidate j contains a keyword extracted from the
\* query of the call
CandidateHasKeyword(c, j) ==
    KeywordMatch[c.query][chunks[1][c.results[j].pos].text]

\* C11: for an institution-related query the filter accepts a candidate
\* (chunk, score) with reason university_related exactly when score >= 0.45
\* and (the lowercased chunk text contains a keyword extracted from the
\* query, or score >= 0.65); relatedness is decided on the query, so a
\* query that is not institution-related never yields that reason.
C11_RelatedQueryPolicy ==
    \A t \in ReturnedCalls :
        \A j \in 1..Len(call[t].results) :
           AcceptedAs(call[t], j, "university_related")
              <=> /\ IsRelated[call[t].query]
                  /\ call[t].results[j].score >= dynamic_threshold
                  /\ \/ call[t].results[j].score >= relevance_threshold
                     \/ CandidateHasKeyword(call[t], j)

\* an institution-related query with two candidates of one score between the
\* thresholds: the one whose text holds a keyword is accepted, the other not
C11_Witness ==
    \E t \in ReturnedCalls :
        /\ IsRelated[call[t].query]
        /\ \E i, j \in 1..Len(call[t].results) :
              /\ call[t].results[i].score = call[t].results[j].score
              /\ call[t].results[i].score >= dynamic_threshold
              /\ call[t].results[i].score < relevance_threshold
              /\ CandidateHasKeyword(call[t], i)
              /\ ~CandidateHasKeyword(call[t], j)
              /\ AcceptedAs(call[t], i, "university_related")
              /\ ~AcceptedAs(call[t], j, "university_related")

(***************************************************************************)
(* Retrieval on a manager that holds no index or no chunk list             *)
(***************************************************************************)
\* C12: search_similar_chunks called while the index or the chunk list is
\* None fails with an error (ValueError), returns no chunks, and changes
\* neither the manager's index, chunk list and files nor any chunk metadata.
C12_UninitializedSearchFails ==
    [][\A t \in Threads, query \in Queries, k \in KValues :
          (index = None \/ chunks = None) /\ search_similar_chunks(t, query, k)
             => /\ pc'[t] = "raised"
                /\ call'[t].error = "ValueError"
                /\ call'[t].returned = <<>>
                /\ UNCHANGED <<index, chunks, disk, seed, model>>]_vars

\* a search that failed on a manager whose chunk list is set and whose index
\* is not: create_embeddings stopped between the two assignments
C12_Witness ==
    /\ pc["t1"] = "raised"
    /\ call["t1"].error = "ValueError"
    /\ call["t1"].returned = <<>>
    /\ index = None
    /\ chunks # None

(***************************************************************************)
(* Replacing the corpus under a query                                      *)
(***************************************************************************)
\* the index holds one vector per chunk, the embedding of that chunk's text
PairWhole ==
    /\ Len(index[1]) = Len(chunks[1])
    /\ \A i \in 1..Len(chunks[1]) : index[1][i] = TextVector[chunks[1][i].text]

\* C13: while load_embeddings, create_embeddings or combine_embeddings
\* replaces the corpus and its index, a query on another thread searches
\* either the whole old (index, chunks) pair or the whole new one, never
\* the index of one with the chunks of the other: the pair an index search
\* reads is an index of exactly the chunks it reads.
C13_QuerySeesWholePair ==
    [][\A t \in Threads :
          pc[t] = "idle" /\ pc'[t] = "searched" => PairWhole]_vars

(***************************************************************************)
(* The query enhancer and the keyword extractor                            *)
(***************************************************************************)
\* the categories one of whose keywords occurs in the lowercased query
MatchedCategories(query) ==
    {c \in Range(Categories) :
        \E kw \in Range(university_keywords[c]) : Contains(Lower(query), kw)}

\* the number of positions of the list that hold a member of the set
CountIn(l, S) ==
    Cardinality({i \in 1..Len(l) : l[i] \in S})

\* C14: for every institution-related query the terms the enhancer appends
\* contain no repeated term and at most 3 terms of any one matching
\* category.
C14_AppendedTermsDistinct ==
    \A t \in Threads :
        pc[t] = "enhanced" =>
           /\ \A i, j \in 1..Len(call[t].terms) :
                 i # j => call[t].terms[i] # call[t].terms[j]
           /\ \A c \in MatchedCategories(call[t].query) :
                 CountIn(call[t].terms, Range(university_keywords[c])) <= 3

MatchedKeywords ==
    Table([q \in Queries |->
             UNION {Range(university_keywords[c]) : c \in MatchedCategories(q)}])

\* every candidate of the call carries the inner product of the vector qv
\* with the vector the index holds for that candidate
ScoredAgainst(c, qv) ==
    \A j \in 1..Len(c.results) :
        c.results[j].score = InnerProduct(qv, index[1][c.results[j].pos], model)

\* C15: the enhancer returns the query unchanged when it is not
\* institution-related; otherwise it returns the original query text
\* followed by at most 5 space-separated terms, each from the keyword list
\* of a category the query matches; and the enhanced string, not the
\* original, is what search_similar_chunks embeds for the index search.
C15_EnhancedQuerySearched ==
    \A t \in ReturnedCalls :
        /\ ~IsRelated[call[t].query] => call[t].enhanced = call[t].query
        /\ Len(call[t].terms) <= 5
        /\ \A i \in 1..Len(call[t].terms) :
              call[t].terms[i] \in MatchedKeywords[call[t].query]
        /\ call[t].enhanced = IF Len(call[t].terms) = 0 THEN call[t].query
                              ELSE call[t].query \o <<" ">> \o JoinSpace(call[t].terms)
        /\ \E qv \in {encode(call[t].enhanced)} : ScoredAgainst(call[t], qv)

\* a query that got five terms appended, and a candidate whose score is not
\* the one the original query text would have given
C15_Witness ==
    \E t \in ReturnedCalls :
        /\ IsRelated[call[t].query]
        /\ Len(call[t].terms) = 5
        /\ Len(call[t].enhanced) > Len(call[t].query)
        /\ Len(call[t].results) > 0
        /\ ~ScoredAgainst(call[t], encode(call[t].query))

(***************************************************************************)
(* Retrieval repeated on one persisted pair                                *)
(***************************************************************************)
\* the texts of the chunks a call returned, in order
ReturnedTexts(c) ==
    List([i \in 1..Len(c.returned) |-> c.returned[i].text])

\* C17: for the same persisted (index, chunk list) pair, the same query and
\* the same k, search_similar_chunks in the saving process and in a new
\* process after load_embeddings returns the same chunk texts in the same
\* order, broad search included.
C17_SameTextsInEveryProcess ==
    (/\ pc["t1"] = "returned"
     /\ pc["t2"] = "returned"
     /\ call["t1"].query = call["t2"].query
     /\ call["t1"].k = call["t2"].k)
        => ReturnedTexts(call["t1"]) = ReturnedTexts(call["t2"])

(***************************************************************************)
(* The index and the chunk list as one pair; combine_embeddings            *)
(***************************************************************************)
\* the step is a create_embeddings that ran to its return
CreateCompleted ==
    \E corpus \in Corpora :
        /\ create_embeddings(corpus)
        /\ index' = Some(List([i \in 1..Len(corpus) |-> TextVector[corpus[i]]]))

\* the step is a load_embeddings that returned True
LoadCompleted ==
    \E prefix \in DOMAIN disk : load_embeddings(prefix)

\* the step is a combine_embeddings that returned True
CombineCompleted ==
    \E t \in Threads :
        /\ pc[t] = "idle"
        /\ pc'[t] = "combined"

\* C18: after every completed create_embeddings, load_embeddings or
\* combine_embeddings, in any sequence and interleaved with save_embeddings,
\* the index holds as many vectors as there are chunks and the vector at
\* position i is the embedding of the text of chunk i.
C18_PairAfterEveryOperation ==
    [][(CreateCompleted \/ LoadCompleted \/ CombineCompleted) => PairWhole']_vars

\* the texts of a list of chunks
ChunkTexts(chunk_list) ==
    List([i \in 1..Len(chunk_list) |-> chunk_list[i].text])

\* the chunk lists persisted under the prefixes, one after the other
RECURSIVE SourceChunks(_)
SourceChunks(sources) ==
    IF Len(sources) = 0 THEN <<>>
    ELSE disk[Head(sources)].pkl[1] \o SourceChunks(Tail(sources))

\* every prefix of the list has its chunk file
AllExist(sources) ==
    \A i \in 1..Len(sources) : disk[sources[i]].pkl # None

C20_MissingSourceChangesNothing ==
    [][\A t \in Threads, sources \in SourceLists :
          (~AllExist(sources) /\ combine_embeddings(t, sources))
             => /\ pc'[t] = "refused"
                /\ UNCHANGED <<index, chunks, disk>>]_vars

\* a loaded manager refused to combine a list whose first source exists and
\* whose second does not
C20_Witness ==
    /\ pc["t1"] = "refused"
    /\ call["t1"].sources = <<"handbook", "catalog">>
    /\ disk["handbook"].pkl # None
    /\ disk["catalog"].pkl = None
    /\ chunks # None
    /\ index # None
    /\ disk["university_combined"] = NoFiles

(***************************************************************************)
(* load_embeddings and the files it needs                                  *)
(***************************************************************************)
\* C21: load_embeddings for a prefix whose index file or chunk file is
\* absent returns False without raising and leaves the index and the chunks
\* in memory, loaded or not, as they were; it returns True only after both
\* have been replaced by the files of that one prefix.
C21_LoadAllOrNothing ==
    [][\A t \in Threads, prefix \in LoadPrefixes :
          LoadCall(t, prefix) =>
             /\ (disk[prefix].faiss = None \/ disk[prefix].pkl = None)
                   => /\ pc'[t] = "load_false"
                      /\ UNCHANGED <<index, chunks, disk>>
             /\ pc'[t] = "load_true"
                   => /\ index' = disk[prefix].faiss
                      /\ chunks' = disk[prefix].pkl
                      /\ index' # None
                      /\ chunks' # None]_vars

\* a loaded manager was asked for a prefix that has its index file and no
\* chunk file, and holds what it held
C21_Witness ==
    /\ pc["t1"] = "load_false"
    /\ call["t1"].sources = <<"handbook">>
    /\ disk["handbook"].faiss # None
    /\ disk["handbook"].pkl = None
    /\ index # None
    /\ chunks # None
    /\ index # disk["handbook"].faiss

(***************************************************************************)
(* The broader search                                                      *)
(***************************************************************************)
\* the calls that have been through the broader search
BroadenedCalls ==
    {t \in Threads : pc[t] \in {"broadened", "returned"} /\ call[t].broadened}

\* the keywords of the categories a query matches, categories in table
\* order and keywords in list order
KeywordsInTableOrder ==
    Table([q \in Queries |-> Distinct(found_keywords(q))])

\* C22: the broader search embeds at most 3 keywords, the first 3 of the
\* keywords extracted from the query in the order of the category table, so
\* that one query always selects the same keywords in the same order.
C22_FirstThreeInTableOrder ==
    \A t \in BroadenedCalls :
        Take(call[t].keywords, 3) = Take(KeywordsInTableOrder[call[t].query], 3)

\* the candidates and the additional chunks of a call none of which stands
\* for the id -1 of a missing result
NoMissingResult(c) ==
    /\ \A j \in 1..Len(c.results) : c.results[j].score # NoResultScore
    /\ \A j \in 1..Len(c.additional) : c.additional[j].score # NoResultScore

\* C23: in the primary search and in the broader search an id returned by
\* the index outside 0..len(chunks)-1, too large or the negative id of a
\* missing result, is skipped: it is mapped to no chunk, annotates no chunk
\* and raises no error.
C23_OutOfBoundsIdsSkipped ==
    \A t \in Threads :
        /\ NoMissingResult(call[t])
        /\ \A i \in 1..Len(chunks[1]) :
              HasAnnotation(chunks[1][i])
                 => chunks[1][i].metadata.relevance_score # NoResultScore

\* lines 338-351 for the j-th selected keyword of the call c: the hits of the
\* index for the embedding of the keyword alone that score 0.4 or more, as
\* the chunks the broader search collects
KeywordResults(c, j) ==
    Apply(LAMBDA found :
             List([i \in 1..Len(found) |->
                     [pos |-> found[i].id + 1,
                      score |-> found[i].score,
                      reason |-> "keyword_search"]]),
          SelectSeq(IndexSearch(index[1], encode(c.keywords[j]), c.k, model),
                    LAMBDA h : h.score >= broad_threshold))

\* C24: for each of the at most 3 selected keywords the broader search
\* takes the k hits of the index for the embedding of the keyword alone and
\* returns exactly those of raw score >= 0.4, concatenated in keyword order
\* without deduplication, at most 3*k chunks, each of them tagged
\* keyword_search with the score it had for the keyword it was returned for.
C24_KeywordHitsTaggedWithScore ==
    \A t \in BroadenedCalls :
        LET c == call[t]
            n == Min(3, Len(c.keywords))
        IN /\ c.additional = Flatten(List([j \in 1..n |-> KeywordResults(c, j)]))
           /\ Len(c.additional) <= 3 * c.k
           /\ pc[t] = "returned" =>
                 \A i \in 1..Len(c.additional) :
                     LET md == chunks[1][c.additional[i].pos].metadata
                     IN /\ md.filtering_reason = "keyword_search"
                        /\ md.relevance_score = c.additional[i].score

(***************************************************************************)
(* A result list after later calls                                         *)
(***************************************************************************)
\* the annotation keys of a chunk
AnnotationOf(chunk) ==
    [relevance_score |-> chunk.metadata.relevance_score,
     filtering_reason |-> chunk.metadata.filtering_reason]

\* C25: once search_similar_chunks has returned a list, a later
\* search_similar_chunks call on the same manager, with the same or another
\* query, does not change the relevance_score or the filtering_reason of the
\* chunks in that earlier list.
C25_EarlierResultKeepsAnnotation ==
    [][(/\ pc["t1"] = "returned"
        /\ pc'["t1"] = "returned"
        /\ searches' = searches + 1)
          => \A i \in 1..Len(call["t1"].final) :
                AnnotationOf(chunks'[1][call["t1"].final[i]])
                   = AnnotationOf(call["t1"].returned[i])]_vars

(***************************************************************************)
(* The filter's annotation and the broader search of the same call         *)
(***************************************************************************)
\* the positions of self.chunks the filter of the call c accepted
FilterPositions(c) ==
    {c.filtered[j].pos : j \in 1..Len(c.filtered)}

\* C26: within one search_similar_chunks call a chunk accepted by the filter
\* keeps in the returned list the relevance_score and the filtering_reason
\* the filter gave it, the broader search that runs afterwards does not
\* overwrite them, and the chunks accepted by the filter precede every chunk
\* contributed by the broader search only.
C26_FilterAnnotationKept ==
    \A t \in ReturnedCalls :
        LET c == call[t]
        IN /\ \A i \in 1..Len(c.final), j \in 1..Len(c.filtered) :
                 c.filtered[j].pos = c.final[i]
                    => Carries(c.returned[i], c.filtered[j])
           /\ \A i, j \in 1..Len(c.final) :
                 (/\ c.final[i] \in FilterPositions(c)
                  /\ c.final[j] \notin FilterPositions(c)) => i < j

(***************************************************************************)
(* What a query leaves alone                                               *)
(***************************************************************************)
\* the chunk without the two keys a query writes
WithoutAnnotation(chunk) ==
    [text |-> chunk.text,
     metadata |-> [key \in DOMAIN chunk.metadata
                         \ {"relevance_score", "filtering_reason"} |->
                      chunk.metadata[key]]]

\* C27: search_similar_chunks leaves the corpus and the index as they were
\* apart from the two annotation keys: the length and the order of the chunk
\* list, the text and every other metadata key of every chunk and the
\* contents of the index are the same after the call as before, for every
\* query and k, whether the call returns or raises.
C27_SearchChangesAnnotationsOnly ==
    [][searches' = searches + 1 =>
          /\ index' = index
          /\ (chunks = None) = (chunks' = None)
          /\ chunks # None =>
                /\ Len(chunks'[1]) = Len(chunks[1])
                /\ \A i \in 1..Len(chunks[1]) :
                      WithoutAnnotation(chunks'[1][i]) = WithoutAnnotation(chunks[1][i])]_vars

\* a call annotated chunks in the filter and in the broader search and left
\* a chunk of the corpus without annotation; the annotated chunks have their
\* text, type and source
C27_Witness ==
    \E t \in ReturnedCalls :
        /\ call[t].filtered # <<>>
        /\ call[t].additional # <<>>
        /\ index # None
        /\ Len(chunks[1]) >= 3
        /\ \E i, j \in 1..Len(chunks[1]) :
              /\ HasAnnotation(chunks[1][i])
              /\ ~HasAnnotation(chunks[1][j])
              /\ chunks[1][i] # WithoutAnnotation(chunks[1][i])
              /\ WithoutAnnotation(chunks[1][i]) = NewChunk(chunks[1][i].text)

(***************************************************************************)
(* Queries related through a common university term only                   *)
(***************************************************************************)
\* lines 172-180: the query has one of university_terms and no keyword of
\* the category table
RelatedByTermOnly ==
    Table([q \in Queries |->
             /\ AnyKeywordIn(university_terms, Lower(q))
             /\ \A c \in 1..Len(Categories) :
                   ~AnyKeywordIn(university_keywords[Categories[c]], Lower(q))])

\* the filter of the call c accepted exactly the candidates of score 0.65 or
\* more, or none of them passed and it fell back to the best ones
AcceptedAtStrictThresholdOnly(c) ==
    LET passed == SelectSeq(c.results, LAMBDA r : r.score >= relevance_threshold)
    IN IF Len(passed) > 0
       THEN /\ Positions(c.filtered) = Positions(passed)
            /\ \A j \in 1..Len(c.filtered) :
                  c.filtered[j].reason = "university_related"
       ELSE \A j \in 1..Len(c.filtered) :
               c.filtered[j].reason = "fallback_best_match"

\* C28: a query with extracted keywords is institution-related, but not
\* conversely: for a query related only through a common term outside the
\* category table (university, college, professor, lecturer) no keyword is
\* extracted, the enhanced query is the query itself, the filter accepts a
\* candidate at score >= 0.65 only (the 0.45 floor admits nothing more), and
\* the broader search returns no chunk.
C28_TermOnlyQueries ==
    \A t \in Threads :
        pc[t] = "returned" =>
           LET c == call[t]
           IN /\ KeywordList[c.query][seed] # <<>> => IsRelated[c.query]
              /\ RelatedByTermOnly[c.query] =>
                    /\ IsRelated[c.query]
                    /\ KeywordList[c.query][seed] = <<>>
                    /\ c.enhanced = c.query
                    /\ AcceptedAtStrictThresholdOnly(c)
                    /\ c.additional = <<>>

\* a query related through "professor" only went through the broader search
\* and got nothing from it; its candidate scored between 0.45 and 0.65 and
\* did not pass the threshold policy
C28_Witness ==
    \E t \in ReturnedCalls :
        /\ RelatedByTermOnly[call[t].query]
        /\ call[t].broadened
        /\ call[t].additional = <<>>
        /\ call[t].enhanced = call[t].query
        /\ \E j \in 1..Len(call[t].results) :
              /\ call[t].results[j].score >= dynamic_threshold
              /\ call[t].results[j].score < relevance_threshold
        /\ \A j \in 1..Len(call[t].filtered) :
              call[t].filtered[j].reason = "fallback_best_match"

(***************************************************************************)
(* When the broader search runs                                            *)
(***************************************************************************)
\* the candidates of the call c that pass the threshold policy of the filter
PassingCandidates(c) ==
    {j \in 1..Len(c.results) :
        Accepts(c.query, chunks[1][c.results[j].pos].text, c.results[j].score)}

\* C29: for an institution-related query whose index search yields at least
\* 3 candidates the broader search runs only when exactly 1 or 2 candidates
\* pass the threshold policy; when none passes the filter returns 3
\* fallback_best_match chunks and the broader search is not invoked.
C29_BroadSearchOnlyAfterOneOrTwo ==
    \A t \in ReturnedCalls :
        LET c == call[t]
            passing == Cardinality(PassingCandidates(c))
        IN (IsRelated[c.query] /\ Len(c.results) >= 3) =>
              /\ c.broadened => passing \in {1, 2}
              /\ passing = 0 =>
                    /\ Len(c.filtered) = 3
                    /\ \A j \in 1..3 : c.filtered[j].reason = "fallback_best_match"
                    /\ ~c.broadened
                    /\ c.additional = <<>>

\* a related query with 4 candidates none of which passed: three fallback
\* chunks and no broader search
C29_Witness ==
    \E t \in ReturnedCalls :
        /\ IsRelated[call[t].query]
        /\ Len(call[t].results) > 3
        /\ PassingCandidates(call[t]) = {}
        /\ Len(call[t].filtered) = 3
        /\ ~call[t].broadened

(***************************************************************************)
(* preserve_important_sections                                             *)
(***************************************************************************)
\* the output lines that were made of the input line at position p
OutputLinesWith(c, p) ==
    {o \in 1..Len(c.preserved_lines) :
        \E m \in 1..Len(c.preserved_lines[o].from) :
            c.preserved_lines[o].from[m] = p}

\* C30: preserve_important_sections consumes every input line exactly once:
\* a run of consecutive table-like lines is emitted as one '|TABLE|'-joined
\* group of at most 5 lines, the lines already placed in a group are
\* skipped, and no input line appears in more than one output line.
C30_EveryLineOnce ==
    \A t \in Threads :
        pc[t] = "preserved" =>
           LET c == call[t]
           IN /\ \A p \in 1..Len(c.lines) :
                    Cardinality(OutputLinesWith(c, p)) = 1
              /\ \A o \in 1..Len(c.preserved_lines) :
                    Len(c.preserved_lines[o].from) \in 1..5

====
